---- MODULE Spec2Model ----
(***************************************************************************)
(* Model of the algo_web puzzle (src/src/lib.rs): the board generator      *)
(* model_default, the message handler update, and the part of the view     *)
(* that decides which messages can be emitted and what score is shown.     *)
(*                                                                         *)
(* rng is the sequence of results of the gen_range calls that              *)
(* model_default makes on its StdRng, in call order.                       *)
(*                                                                         *)
(* Vectors are functions over 0..len-1 so that tile ids are the source's   *)
(* 0-based indices.  Option<usize> is None == <<>> and Some(i) == <<i>>.   *)
(***************************************************************************)
EXTENDS Integers, Sequences, FiniteSets, TLC

VARIABLES model, msg, prev, rng

vars == <<model, msg, prev, rng>>

----------------------------------------------------------------------------
(* Bounds of the exploration.                                              *)

\* Largest tile count explored.  The source draws n from gen_range(12, 13);
\* update and the view only ever use is_used.len(), so the state machine is
\* explored on boards of 2..MaxTiles tiles.
MaxTiles == 3

\* Generated values are sampled from 0..MaxVal, a subset of the source's
\* gen_range(-100, 101); combines produce the negative values.
MaxVal == 1

----------------------------------------------------------------------------
(* Small helpers for 0-based vectors.                                      *)

None == <<>>

Some(i) == <<i>>

VecLen(v) == Cardinality(DOMAIN v)

\* vec![e; n]
VecRepeat(e, n) == [i \in 0..(n - 1) |-> e]

\* rng.gen_range(low, high): the half-open range low..high-1
gen_range(low, high) == low..(high - 1)

----------------------------------------------------------------------------
(* Board generator: model_default.                                         *)

x == <<6, 18, 30>>

y == <<16, 28, 40, 52, 64, 76>>

NumCandidates == Len(x) * Len(y)

\* x.iter().flat_map(|&i| y.iter().map(move |&j| (i, j))): x outer, y inner
BaseGrid == [k \in 0..(NumCandidates - 1) |->
               <<x[(k \div Len(y)) + 1], y[(k % Len(y)) + 1]>>]

JitterLow == -2

JitterHigh_wide == 3 + 1

JitterHigh == 3

ValueLow == -100

ValueHigh == 101

\* `as u64` on an i64: the identity on non-negative values; a negative value
\* v becomes 2^64 + v, kept symbolically because it exceeds TLC's integers.
AsU64(v) == IF v >= 0 THEN v ELSE [two_pow_64_plus |-> v]

\* .map(|(i, j)| (i + gen_range(-2, 3), j + gen_range(-2, 3))).map(as u64):
\* candidate k consumes draws 2k (for i) and 2k+1 (for j) of the stream jit.
Jitter(jit) == [k \in 0..(NumCandidates - 1) |->
                  <<AsU64(BaseGrid[k][1] + jit[2 * k]),
                    AsU64(BaseGrid[k][2] + jit[2 * k + 1])>>]

Swap(v, i, j) == [v EXCEPT ![i] = v[j], ![j] = v[i]]

\* points.shuffle(&mut rng): for i in (1..len).rev() { swap(i, gen_range(0, i + 1)) }
\* shuf[i] is the draw made at index i.
RECURSIVE ShuffleFrom(_, _, _)
ShuffleFrom(v, shuf, i) ==
  IF i < 1 THEN v ELSE ShuffleFrom(Swap(v, i, shuf[i]), shuf, i - 1)

Shuffle(v, shuf) == ShuffleFrom(v, shuf, VecLen(v) - 1)

PadPoint == <<50, 50>>

Resize_short(v, n, pad) == [i \in 0..(n - 2) |-> IF i < VecLen(v) THEN v[i] ELSE pad]

\* points.resize(n, (50, 50)): truncate to n or pad with the default point
Resize(v, n, pad) == [i \in 0..(n - 1) |-> IF i < VecLen(v) THEN v[i] ELSE pad]

\* The Model value returned by model_default for one outcome d of the random
\* draws: d.jit the 36 jitter draws, d.shuf the shuffle draws, d.n the tile
\* count draw and d.vals the n value draws, in that order on the stream.
model_default(d) ==
  [numbers     |-> [i \in 0..(d.n - 1) |-> d.vals[i]],
   points      |-> Resize(Shuffle(Jitter(d.jit), d.shuf), d.n, PadPoint),
   is_used     |-> VecRepeat(FALSE, d.n),
   selected    |-> None,
   page        |-> "Play",
   is_finished |-> TRUE,
   name        |-> ""]

\* Outcomes of the random draws that the exploration starts from.  StdRng
\* is a library generator whose stream is not part of the repository, so the
\* draws are a nondeterministic choice: two sample streams for the jitter
\* and shuffle draws (every draw at its lowest, every draw at its highest),
\* and every vector of values over 0..MaxVal.
RngStreams ==
  {[jit  |-> [k \in 0..(2 * NumCandidates - 1) |-> JitterLow],
    shuf |-> [i \in 1..(NumCandidates - 1) |-> 0]],
   [jit  |-> [k \in 0..(2 * NumCandidates - 1) |-> JitterHigh - 1],
    shuf |-> [i \in 1..(NumCandidates - 1) |-> i]]}

TileCounts == 2..MaxTiles

\* rng.gen_range(-100, 101), sampled on 0..MaxVal
ValueSamples == gen_range(ValueLow, ValueHigh) \cap (0..MaxVal)

DrawOutcomes ==
  {[jit |-> r.jit, shuf |-> r.shuf, n |-> VecLen(v), vals |-> v] :
     r \in RngStreams,
     v \in UNION {[0..(n - 1) -> ValueSamples] : n \in TileCounts}}

CountLow == 12

CountHigh == 13

NumJitterDraws == 2 * NumCandidates

NumShuffleDraws == NumCandidates - 1

\* Position on the stream of the tile-count draw: after the jitter draws
\* (line 45) and the shuffle draws (line 48).
CountDrawAt == NumJitterDraws + NumShuffleDraws

Draws_values_reversed(s) ==
  [jit  |-> [k \in 0..(NumJitterDraws - 1) |-> s[k]],
   shuf |-> [i \in 1..NumShuffleDraws |-> s[NumJitterDraws + (NumShuffleDraws - i)]],
   n    |-> s[CountDrawAt],
   vals |-> [t \in 0..(s[CountDrawAt] - 1) |-> s[CountDrawAt + s[CountDrawAt] - t]]]

\* The draws of model_default read off the stream s in call order: the
\* jitter draws of the 18 candidates (two each, i before j), the shuffle
\* draws for i = 17 down to 1, the tile count, then the n values.
Draws(s) ==
  [jit  |-> [k \in 0..(NumJitterDraws - 1) |-> s[k]],
   shuf |-> [i \in 1..NumShuffleDraws |-> s[NumJitterDraws + (NumShuffleDraws - i)]],
   n    |-> s[CountDrawAt],
   vals |-> [t \in 0..(s[CountDrawAt] - 1) |-> s[CountDrawAt + 1 + t]]]

\* The stream that yields the draws d.
StreamOf(d) ==
  [p \in 0..(CountDrawAt + d.n) |->
     IF p < NumJitterDraws THEN d.jit[p]
     ELSE IF p < CountDrawAt THEN d.shuf[NumShuffleDraws - (p - NumJitterDraws)]
     ELSE IF p = CountDrawAt THEN d.n
     ELSE d.vals[p - CountDrawAt - 1]]

\* The arguments (low, high) of the gen_range call at stream position p.
RangeArgs(p) ==
  IF p < NumJitterDraws THEN <<JitterLow, JitterHigh>>
  ELSE IF p < CountDrawAt THEN <<0, NumShuffleDraws - (p - NumJitterDraws) + 1>>
  ELSE IF p = CountDrawAt THEN <<CountLow, CountHigh>>
  ELSE <<ValueLow, ValueHigh>>

\* The results the gen_range call at stream position p can return.
RangeAt(p) == gen_range(RangeArgs(p)[1], RangeArgs(p)[2])

LowAt(p) == RangeArgs(p)[1]

HighAt(p) == RangeArgs(p)[2] - 1

StreamPositions == 0..(CountDrawAt + LowAt(CountDrawAt))

\* Three sample streams of the generator with the source's ranges: every
\* draw at its lowest, every draw at its highest, and the two alternating.
BaseStreams ==
  {[p \in StreamPositions |-> LowAt(p)],
   [p \in StreamPositions |-> HighAt(p)],
   [p \in StreamPositions |-> IF p % 2 = 0 THEN LowAt(p) ELSE HighAt(p)]}

----------------------------------------------------------------------------
(* Messages.                                                               *)

Clicked(id) == [tag |-> "Clicked", id |-> id]

ClickedPlay == [tag |-> "ClickedPlay"]

ClickedRanking == [tag |-> "ClickedRanking"]

ClickedRollBack == [tag |-> "ClickedRollBack"]

ClickedSendButton == [tag |-> "ClickedSendButton"]

ChangedTextArea(str) == [tag |-> "ChangedTextArea", str |-> str]

\* No message handled yet (the state returned by init).
NoMsg == [tag |-> "init"]

----------------------------------------------------------------------------
(* update.                                                                 *)

\* model.is_used.iter().filter(|&&b| b).count()
UsedCount(m) == Cardinality({i \in DOMAIN m.is_used : m.is_used[i]})

IsCombine_always(a_id, id) == TRUE

\* if a_id != id
IsCombine(a_id, id) == a_id # id

Combine_swapped(m, a_id, id) ==
  [m EXCEPT !.numbers[a_id] = m.numbers[id] - @,
            !.is_used[id] = TRUE]

Combine_resets(m, a_id, id) ==
  [m EXCEPT !.numbers[a_id] = @ - m.numbers[id],
            !.is_used = [i \in DOMAIN m.is_used |-> i = id]]

Combine_both(m, a_id, id) ==
  [m EXCEPT !.numbers[a_id] = @ - m.numbers[id],
            !.is_used[id] = TRUE,
            !.is_used[a_id] = TRUE]

Combine_keeps_clicked(m, a_id, id) ==
  [m EXCEPT !.numbers[a_id] = @ - m.numbers[id]]

Combine_into_clicked(m, a_id, id) ==
  [m EXCEPT !.numbers[id] = m.numbers[a_id] - @,
            !.is_used[id] = TRUE]

\* model.numbers[a_id] -= model.numbers[id]; model.is_used[id] = true;
\* i64 arithmetic; the explored values stay far inside the i64 range.
Combine(m, a_id, id) ==
  [m EXCEPT !.numbers[a_id] = @ - m.numbers[id],
            !.is_used[id] = TRUE]

ClearSelection_keeps(m, id) == [m EXCEPT !.selected = Some(id)]

\* model.selected = None;  (after the combine or the deselect)
ClearSelection(m, id) == [m EXCEPT !.selected = None]

Completion_recomputed(m) ==
  [m EXCEPT !.is_finished = (UsedCount(m) + 1 = VecLen(m.is_used))]

\* if count + 1 == is_used.len() { model.is_finished = true; }
Completion(m) ==
  IF UsedCount(m) + 1 = VecLen(m.is_used)
    THEN [m EXCEPT !.is_finished = TRUE]
    ELSE m

\* Msg::Clicked(id), arm Some(a_id)
ClickedSome(m, a_id, id) ==
  Completion(ClearSelection(IF IsCombine(a_id, id) THEN Combine(m, a_id, id) ELSE m, id))

ClickedNone_marks(m, id) == [m EXCEPT !.selected = Some(id), !.is_used[id] = TRUE]

\* Msg::Clicked(id), arm None
ClickedNone(m, id) == [m EXCEPT !.selected = Some(id)]

RollBackArm_undo(m) == [m EXCEPT !.selected = None]

\* Msg::ClickedRollBack => {}
RollBackArm(m) == m

\* Msg::ClickedSendButton => {}
SendButtonArm(m) == m

SetPage_clears(m, p) == [m EXCEPT !.page = p, !.selected = None]

\* Msg::ClickedPlay => model.page = Page::Play (and the same for Ranking)
SetPage(m, p) == [m EXCEPT !.page = p]

SetName_nonempty(m, str) == IF str = "" THEN m ELSE [m EXCEPT !.name = str]

\* Msg::ChangedTextArea(str) => model.name = str
SetName(m, str) == [m EXCEPT !.name = str]

update(g, m) ==
  CASE g.tag = "Clicked" ->
         IF m.selected # None
           THEN ClickedSome(m, m.selected[1], g.id)
           ELSE ClickedNone(m, g.id)
    [] g.tag = "ClickedPlay" -> SetPage(m, "Play")
    [] g.tag = "ClickedRanking" -> SetPage(m, "Ranking")
    [] g.tag = "ClickedRollBack" -> RollBackArm(m)
    [] g.tag = "ClickedSendButton" -> SendButtonArm(m)
    [] g.tag = "ChangedTextArea" -> SetName(m, g.str)

----------------------------------------------------------------------------
(* View: which tiles are drawn (and so can be clicked) and the score.      *)

\* view_play: izip!(..).enumerate().filter(|(_, (_, _, &b))| !b): only unused
\* tiles get a view_num node, whose click handler emits Msg::Clicked(id).
VisibleTiles(m) == {i \in DOMAIN m.is_used : ~m.is_used[i]}

\* view_result: numbers.iter().zip(is_used).find(|(_, &b)| !b).unwrap().0
\* the value of the first unused tile; unwrap panics when find returns None.
view_result(m) ==
  IF VisibleTiles(m) = {}
    THEN [panic |-> TRUE]
    ELSE [panic |-> FALSE,
          score |-> m.numbers[CHOOSE i \in VisibleTiles(m) :
                                \A j \in VisibleTiles(m) : i <= j]]

\* IF!(model.is_finished => view_result(model)): the result is rendered
\* exactly when is_finished holds.
ResultShown(m) == m.is_finished

----------------------------------------------------------------------------
(* State machine.                                                          *)

Names == {"", "a"}

Init ==
  \E d \in DrawOutcomes :
    /\ rng = StreamOf(d)
    /\ \E drawn \in {Draws(rng)} : model = model_default(drawn)
    /\ msg = NoMsg
    /\ prev = model

\* Every action hands one message to update; msg and prev record the
\* message and the model it was applied to.

\* A click on a tile node drawn by view_play.
ClickTile ==
  \E id \in VisibleTiles(model) :
    /\ model' = update(Clicked(id), model)
    /\ msg' = Clicked(id)
    /\ prev' = model
  /\ rng' = rng
    /\ rng' = rng

Play ==
  /\ model' = update(ClickedPlay, model)
  /\ msg' = ClickedPlay
  /\ prev' = model
  /\ rng' = rng

Ranking ==
  /\ model' = update(ClickedRanking, model)
  /\ msg' = ClickedRanking
  /\ prev' = model
  /\ rng' = rng

RollBack ==
  /\ model' = update(ClickedRollBack, model)
  /\ msg' = ClickedRollBack
  /\ prev' = model
  /\ rng' = rng

SendButton ==
  /\ model' = update(ClickedSendButton, model)
  /\ msg' = ClickedSendButton
  /\ prev' = model
  /\ rng' = rng

TextArea ==
  \E str \in Names :
    /\ model' = update(ChangedTextArea(str), model)
    /\ msg' = ChangedTextArea(str)
    /\ prev' = model
  /\ rng' = rng
    /\ rng' = rng

Next ==
  \/ ClickTile
  \/ Play
  \/ Ranking
  \/ RollBack
  \/ SendButton
  \/ TextArea

\* The program: messages come from the nodes the view has drawn.
Spec == Init /\ [][Next]_vars

----------------------------------------------------------------------------------------------------------------------------------------------------
(* Generator with the source's tile count and ranges.                      *)

\* The generator is explored on each sample stream and on each sample
\* stream with one draw replaced by any result of that draw's range.
InitGen ==
  \E b \in BaseStreams, p \in StreamPositions :
    /\ \E v \in RangeAt(p) : rng = [b EXCEPT ![p] = v]
    /\ \E drawn \in {Draws(rng)} : model = model_default(drawn)
    /\ msg = NoMsg
    /\ prev = model

\* The boards of the sample streams are played on; the others are only
\* generated.
Played == rng \in BaseStreams

\* A click on one of the first MaxTiles tile nodes drawn by view_play.
GenClickTile ==
  /\ Played
  /\ \E id \in VisibleTiles(model) \cap (0..(MaxTiles - 1)) :
       /\ model' = update(Clicked(id), model)
       /\ msg' = Clicked(id)
       /\ prev' = model
       /\ rng' = rng

GenPlay == Played /\ Play

GenRanking == Played /\ Ranking

GenRollBack == Played /\ RollBack

GenSendButton == Played /\ SendButton

GenTextArea == Played /\ TextArea

NextGen ==
  \/ GenClickTile
  \/ GenPlay
  \/ GenRanking
  \/ GenRollBack
  \/ GenSendButton
  \/ GenTextArea

\* model_default over these streams, then play on the sample boards.
SpecGen == InitGen /\ [][NextGen]_vars

----
(* Properties.                                                             *)

N == VecLen(model.is_used)

Tiles == DOMAIN model.is_used

\* The last step was update(Clicked(id), prev) for some id.
WasClick == msg.tag = "Clicked"

\* C1: the session produced by model_default has every used flag false,
\* selected = none, finished = false and an empty player name.
C1_InitialSession ==
  msg.tag = "init" =>
    /\ \A i \in Tiles : ~model.is_used[i]
    /\ model.selected = None
    /\ model.is_finished = FALSE
    /\ model.name = ""

\* C2: in every reachable state finished is true if and only if exactly
\* N - 1 tiles are used.
C2_CompletionExact ==
  model.is_finished <=> (UsedCount(model) = N - 1)

\* C3: whenever finished is true exactly one tile is unused and the score
\* computed by view_result is that tile's value.
C3_ScoreWellDefined ==
  model.is_finished =>
    /\ Cardinality(VisibleTiles(model)) = 1
    /\ \A t \in VisibleTiles(model) :
         view_result(model) = [panic |-> FALSE, score |-> model.numbers[t]]

\* C4: Clicked(B) with A selected, A # B, both unused, sets
\* value[A] = old value[A] - old value[B], used[B] = true, selected = none
\* and changes no other value and no other used flag.
C4_Combine ==
  \A a, b \in Tiles :
    ( /\ WasClick
      /\ msg.id = b
      /\ prev.selected = Some(a)
      /\ a # b
      /\ ~prev.is_used[a]
      /\ ~prev.is_used[b] )
    => /\ model.numbers[a] = prev.numbers[a] - prev.numbers[b]
       /\ model.is_used[b] = TRUE
       /\ model.selected = None
       /\ \A i \in Tiles \ {a} : model.numbers[i] = prev.numbers[i]
       /\ \A i \in Tiles \ {b} : model.is_used[i] = prev.is_used[i]

\* A combine of two tiles with different non-zero values has happened.
C4_Witness ==
  /\ WasClick
  /\ prev.selected # None
  /\ prev.selected[1] # msg.id
  /\ prev.numbers[msg.id] # 0
  /\ prev.numbers[prev.selected[1]] # 0
  /\ prev.numbers[prev.selected[1]] # prev.numbers[msg.id]
  /\ model.is_used[msg.id]

\* C5: Clicked(A) with A selected clears the selection and changes no value
\* and no used flag.
C5_Deselect ==
  ( /\ WasClick
    /\ prev.selected = Some(msg.id) )
  => /\ model.selected = None
     /\ model.numbers = prev.numbers
     /\ model.is_used = prev.is_used

\* The selected tile, holding a non-zero value, has been clicked again.
C5_Witness ==
  /\ WasClick
  /\ prev.selected = Some(msg.id)
  /\ prev.numbers[msg.id] # 0
  /\ model.selected = None

\* C6: no step of any kind sets a used flag from true to false.
C6_MonotonicUsage ==
  [][\A i \in Tiles : model.is_used[i] => model'.is_used[i]]_vars

\* A tile that was already used has gone through a further combine.
C6_Witness ==
  /\ WasClick
  /\ \E i \in Tiles : prev.is_used[i] /\ model.is_used[i]
  /\ UsedCount(model) > UsedCount(prev)

\* C7: selected is none or the id of one tile that is in range and unused.
C7_SingleSelection ==
  \/ model.selected = None
  \/ /\ Len(model.selected) = 1
     /\ model.selected[1] \in Tiles
     /\ ~model.is_used[model.selected[1]]

\* A tile is selected on a board that already has used tiles.
C7_Witness ==
  /\ model.selected # None
  /\ UsedCount(model) > 0
  /\ WasClick

C9_FinishedStable ==
  [][model.is_finished => model'.is_finished]_vars

\* A finished board with N - 1 used tiles has handled a further click.
C9_Witness ==
  /\ WasClick
  /\ prev.is_finished
  /\ UsedCount(prev) = VecLen(prev.is_used) - 1
  /\ model.is_finished

\* C10: at most N - 1 tiles are ever used, so the score lookup of
\* view_result finds an unused tile and its unwrap does not panic.
C10_OneTileLeft ==
  /\ UsedCount(model) <= N - 1
  /\ view_result(model).panic = FALSE

\* The last combine has happened and the result is rendered.
C10_Witness ==
  /\ WasClick
  /\ UsedCount(prev) = N - 2
  /\ UsedCount(model) = N - 1
  /\ ResultShown(model)
  /\ model.page = "Play"

\* C11: ClickedRollBack and ClickedSendButton leave the entire model
\* (values, positions, used flags, selected, finished, page, name) unchanged.
C11_NoOps ==
  msg.tag \in {"ClickedRollBack", "ClickedSendButton"} => model = prev

\* A rollback has been handled while a tile was selected on a board with a
\* used tile, and a send while a name was entered.
C11_Witness ==
  \/ /\ msg.tag = "ClickedRollBack"
     /\ prev.selected # None
     /\ UsedCount(prev) > 0
  \/ /\ msg.tag = "ClickedSendButton"
     /\ prev.name # ""
     /\ prev.selected # None

\* C12: ClickedPlay and ClickedRanking set page to Play and Ranking and
\* change nothing else, also while a tile is selected.
C12_Navigation ==
  /\ msg.tag = "ClickedPlay" => model = [prev EXCEPT !.page = "Play"]
  /\ msg.tag = "ClickedRanking" => model = [prev EXCEPT !.page = "Ranking"]

\* The page has been switched to Ranking while a tile was selected.
C12_Witness ==
  /\ msg.tag = "ClickedRanking"
  /\ prev.page = "Play"
  /\ prev.selected # None
  /\ model.page = "Ranking"

\* C13: ChangedTextArea(s) sets the player name to exactly s and changes
\* nothing else.
C13_TextChange ==
  msg.tag = "ChangedTextArea" => model = [prev EXCEPT !.name = msg.str]

\* A name has been replaced by a different string on a complete board.
C13_Witness ==
  /\ msg.tag = "ChangedTextArea"
  /\ prev.name # ""
  /\ msg.str # prev.name
  /\ UsedCount(prev) = VecLen(prev.is_used) - 1

\* C17: Clicked(t) for an unused tile t with nothing selected sets
\* selected = t and changes nothing else.
C17_Select ==
  ( /\ WasClick
    /\ prev.selected = None
    /\ ~prev.is_used[msg.id] )
  => model = [prev EXCEPT !.selected = Some(msg.id)]

\* A tile has been selected on a board that already has a used tile.
C17_Witness ==
  /\ WasClick
  /\ prev.selected = None
  /\ UsedCount(prev) > 0
  /\ model.selected = Some(msg.id)

\* C19: a step never changes the value of a used tile; a value that changes
\* is that of the tile that was selected and unused before the step.
C19_UsedValueFrozen ==
  [][\A i \in Tiles :
       /\ model.is_used[i] => model'.numbers[i] = model.numbers[i]
       /\ model'.numbers[i] # model.numbers[i]
            => model.selected = Some(i) /\ ~model.is_used[i]]_vars

\* A combine has changed a value while another tile, used earlier with a
\* non-zero value, kept its value.
C19_Witness ==
  /\ WasClick
  /\ model.numbers # prev.numbers
  /\ \E i \in Tiles : prev.is_used[i] /\ prev.numbers[i] # 0
                       /\ model.numbers[i] = prev.numbers[i]

\* The generated model has not handled a message yet.
Fresh == msg.tag = "init"

\* C15: every generated value lies in [-100, 100]; every tile position is a
\* base coordinate of {6,18,30} x {16,28,40,52,64,76} offset by at most 2,
\* so x is in [4, 32] and y in [14, 78]; no tile sits at the padding
\* position (50, 50).
C15_GeneratorRanges ==
  /\ Fresh => \A t \in Tiles : model.numbers[t] \in (-100)..100
  /\ \A t \in Tiles :
       /\ model.points[t][1] \in 4..32
       /\ model.points[t][2] \in 14..78
       /\ \E bx \in {6, 18, 30}, by \in {16, 28, 40, 52, 64, 76} :
            /\ model.points[t][1] - bx \in (-2)..2
            /\ model.points[t][2] - by \in (-2)..2
       /\ model.points[t] # <<50, 50>>

\* A fresh board holding both extreme values and a tile on each extreme
\* coordinate.
C15_Witness ==
  /\ Fresh
  /\ \E t \in Tiles : model.numbers[t] = -100
  /\ \E t \in Tiles : model.numbers[t] = 100
  /\ \E t \in Tiles : model.points[t][1] = 4
  /\ \E t \in Tiles : model.points[t][1] = 32
  /\ \E t \in Tiles : model.points[t][2] = 78

\* The 18 jittered candidates in the order the shuffle leaves them.
ShuffledCandidates == Shuffle(Jitter(Draws(rng).jit), Draws(rng).shuf)

\* C16: the generator yields N = 12 tiles, the value, position and used
\* vectors all have exactly N entries, the positions are the first N of the
\* 18 shuffled candidates, and no step changes a length or a position.
C16_TileCountFixed ==
  /\ N = 12
  /\ DOMAIN model.numbers = 0..11
  /\ DOMAIN model.points = 0..11
  /\ DOMAIN model.is_used = 0..11
  /\ VecLen(ShuffledCandidates) = 18
  /\ \A t \in Tiles : model.points[t] = ShuffledCandidates[t]
  /\ model.points = prev.points

\* Two combines have been played on the generated board.
C16_Witness ==
  /\ WasClick
  /\ UsedCount(model) = 2
  /\ N = 12

\* The jittered position of candidate k when its two draws are the draws
\* 2k and 2k + 1 of the stream.
JitteredFromStream(k) ==
  <<BaseGrid[k][1] + rng[2 * k], BaseGrid[k][2] + rng[2 * k + 1]>>

\* The 17 shuffle draws are the draws 36..52, made for i = 17 down to 1.
ShuffleDrawFromStream(i) == rng[36 + (17 - i)]

\* C18: on the one stream the 36 jitter draws come first (two per
\* candidate), then the 17 shuffle draws, then the tile-count draw, then
\* the N value draws, assigned to tiles 0..N-1 in draw order.
C18_DrawOrder ==
  Fresh =>
    /\ N = rng[53]
    /\ DOMAIN rng = 0..(53 + N)
    /\ \A t \in Tiles : model.numbers[t] = rng[54 + t]
    /\ \A t \in Tiles : \E k \in 0..17 : model.points[t] = JitteredFromStream(k)
    /\ (\A i \in 1..17 : ShuffleDrawFromStream(i) = i)
         => \A t \in Tiles : model.points[t] = JitteredFromStream(t)
    /\ (\A i \in 1..17 : ShuffleDrawFromStream(i) = 0)
         => \A t \in Tiles : model.points[t] = JitteredFromStream(t + 1)

\* A fresh board from a stream whose shuffle draws leave the order as it
\* is and with unequal jitter draws for one candidate.
C18_Witness ==
  /\ Fresh
  /\ \A i \in 1..17 : ShuffleDrawFromStream(i) = i
  /\ \E k \in 0..11 : /\ rng[2 * k] # rng[2 * k + 1]
                       /\ model.points[k] = JitteredFromStream(k)

Abs(v) == IF v < 0 THEN -v ELSE v

RECURSIVE AbsSum(_, _)
AbsSum(m, S) ==
  IF S = {} THEN 0
  ELSE LET i == CHOOSE j \in S : TRUE
       IN Abs(m.numbers[i]) + AbsSum(m, S \ {i})

\* The sum of the absolute values of the unused tiles of m.
AbsSumUnused(m) == AbsSum(m, VisibleTiles(m))

\* C20: no step increases the sum of the absolute values of the unused
\* tiles, so every unused tile's value (and the score) stays within
\* 100 * N = 1200 in absolute value, far inside the i64 range.
C20_ValuesBounded ==
  /\ AbsSumUnused(model) <= AbsSumUnused(prev)
  /\ AbsSumUnused(model) <= 100 * N
  /\ \A i \in VisibleTiles(model) : Abs(model.numbers[i]) <= 1200
  /\ view_result(model).score \in (-1200)..1200

\* A combine of 100 and -100 has produced a value beyond the generated
\* range while the sum stayed the same.
C20_Witness ==
  /\ WasClick
  /\ \E i \in VisibleTiles(model) : Abs(model.numbers[i]) > 100
  /\ AbsSumUnused(model) = AbsSumUnused(prev)
  /\ AbsSumUnused(prev) = 1200

====
